---- MODULE Spec2Model ----
(***************************************************************************)
(* PandocCodeDecorator (src/src/main.js): an index from character offsets  *)
(* of a source text to the <span> runs of a pandoc-highlighted code block, *)
(* with range decoration (decorateSpan / clearSpan), boundary splitting    *)
(* (ensureExactSpan) and offset -> line/column translation.                *)
(*                                                                         *)
(* A DOM node is modelled by the two properties the class reads and        *)
(* writes: textContent (a sequence of one-character strings) and classList *)
(* (a set of class names).  Every entry of _elementEntryPoints owns its    *)
(* node: no two entries share one, so the node is kept inside the entry.   *)
(* The sibling order of the rendered spans (node.after) is never read back *)
(* by the class and is not part of the state.                              *)
(***************************************************************************)
EXTENDS Integers, Sequences, FiniteSets, TLC

\* ------------------------------------------------------------------ bounds

\* How far below the first segment's offset the offset arguments range.
Below == 1
\* How far past the end of the last segment's text the offset arguments range.
Beyond == 1

\* JavaScript's Infinity, the "through the end of the document" sentinel.
\* It is encoded as an integer larger than every finite offset of the model;
\* it is only ever compared, and subtracted from in Minus, which saturates.
Infinity == 1000000

\* The class names used as style tags.
Classes == {"hl", "kw"}
\* The class collections passed to decorateSpan / clearSpan.
ClassArgs == {{}, {"hl"}, {"hl", "kw"}}

\* --------------------------------------------------------- JS primitives

Min(a, b) == IF a <= b THEN a ELSE b
Max(a, b) == IF a >= b THEN a ELSE b
SetMin(S) == CHOOSE x \in S : \A y \in S : x <= y

\* a - b on numbers where a may be Infinity (Infinity - finite = Infinity).
Minus(a, b) == IF a = Infinity THEN Infinity ELSE a - b

\* String.prototype.slice(from, to) on a string of length Len(s): negative
\* indices count from the end, both are clamped to [0, length].
SliceIndex(s, k) == IF k < 0 THEN Max(Len(s) + k, 0) ELSE Min(k, Len(s))
Slice(s, from, to) == SubSeq(s, SliceIndex(s, from) + 1, SliceIndex(s, to))
\* String.prototype.slice(from): to the end of the string.
SliceFrom(s, from) == SubSeq(s, SliceIndex(s, from) + 1, Len(s))

\* ----------------------------------------------------- rendering surface

\* A child node of a line: a #text node, a SPAN element or another element
\* (pandoc puts an empty <a> anchor at the head of every line).
Child(name, text, classes) ==
    [nodeName |-> name, textContent |-> text, classList |-> classes]
Span(text, classes) == Child("SPAN", text, classes)
Text(text) == Child("#text", text, {})
Anchor == Child("A", <<>>, {})
\* A line: <span id="cb1-<id>">children</span>, its id ending in the decimal
\* number id.
Line(id, children) == [id |-> id, numericId |-> TRUE, children |-> children]
\* A line whose id does not end in a number (id="intro", id="cb1-x").
MalformedLine(children) ==
    [id |-> 0, numericId |-> FALSE, children |-> children]
\* The <code> element and its parent's data-source-offset attribute.
Surface(hasSourceOffset, sourceOffset, lines) ==
    [hasSourceOffset |-> hasSourceOffset, sourceOffset |-> sourceOffset,
     lines |-> lines]

\* "ab" / "cd" rendered as four one-character runs: a@0 b@1 c@3 d@4.
ExampleLayout ==
    Surface(FALSE, 0,
        << Line(1, << Anchor, Span(<<"a">>, {}), Span(<<"b">>, {}) >>),
           Line(2, << Anchor, Span(<<"c">>, {}), Span(<<"d">>, {}) >>) >>)
\* "a" / "" / "b": a line without runs between two lines with runs, a
\* pre-tagged run and a raw text child.  a@0, b@3; 1 and 2 are line breaks.
GapLayout ==
    Surface(FALSE, 0,
        << Line(1, << Anchor, Span(<<"a">>, {"kw"}) >>),
           Line(2, << Anchor >>),
           Line(3, << Anchor, Text(<<"b">>) >>) >>)
\* An excerpt starting one character into the document (offsets from -1),
\* followed by a line without runs.
BiasLayout ==
    Surface(TRUE, 1,
        << Line(4, << Span(<<"a", "b", "c">>, {}) >>),
           Line(5, << Anchor >>) >>)
\* A first line without runs (the first segment's offset is 1), and
\* data-source-offset="0".
LeadingEmptyLayout ==
    Surface(TRUE, 0,
        << Line(1, << Anchor >>),
           Line(2, << Text(<<"a">>), Span(<<"b", "c">>, {"kw"}) >>) >>)

Layouts == {ExampleLayout, GapLayout, BiasLayout, LeadingEmptyLayout}

\* "ab" / "c" with a first line whose id does not end in a number.
MalformedIdLayout ==
    Surface(FALSE, 0,
        << MalformedLine(<< Anchor, Span(<<"a", "b">>, {}) >>),
           Line(2, << Anchor, Text(<<"c">>) >>) >>)

\* ------------------------------------------------------------ construction

\* normalizeCodeRange: every #text child of a line becomes an unclassed span.
NormalizeChild(n) ==
    IF n.nodeName = "#text" THEN Span(n.textContent, {}) ELSE n
NormalizeCodeRange(surface) ==
    [surface EXCEPT !.lines =
        [i \in 1..Len(surface.lines) |->
            [surface.lines[i] EXCEPT !.children =
                [j \in 1..Len(surface.lines[i].children) |->
                    NormalizeChild(surface.lines[i].children[j])]]]]

\* JavaScript's NaN, the value of Number() on a string that is no number.  It
\* is encoded as an integer that is no line number of the model; the class
\* only stores and returns it.
NaN == -1000000

\* Number(line.id.split("-").pop()): the number an id "cb1-<n>" ends in, NaN
\* for an id that ends in no number.
LineNumber(line) == IF line.numericId THEN line.id ELSE NaN

\* The forEach of initializeEntryPoints over one line's SPAN children.
RECURSIVE LineEntries(_, _, _, _)
LineEntries(children, offset, lineNumber, column) ==
    IF children = <<>> THEN <<>>
    ELSE LET n == Head(children) IN
         IF n.nodeName = "SPAN"
         THEN << [offset |-> offset, line |-> lineNumber, column |-> column,
                  node |-> [textContent |-> n.textContent,
                            classList |-> n.classList]] >>
              \o LineEntries(Tail(children), offset + Len(n.textContent),
                             lineNumber, column + Len(n.textContent))
         ELSE LineEntries(Tail(children), offset, lineNumber, column)

\* The total text length of a line's SPAN children.
RECURSIVE SpanLength(_)
SpanLength(children) ==
    IF children = <<>> THEN 0
    ELSE (IF Head(children).nodeName = "SPAN"
          THEN Len(Head(children).textContent) ELSE 0)
         + SpanLength(Tail(children))

\* The initial value of the offset cursor:
\* (dataset.sourceOffset && -Number(dataset.sourceOffset)) || 0.
InitialOffset(surface) ==
    IF surface.hasSourceOffset /\ surface.sourceOffset # 0
    THEN 0 - surface.sourceOffset ELSE 0

RECURSIVE LinesEntries(_, _)
LinesEntries(lines, offset) ==
    IF lines = <<>> THEN <<>>
    ELSE LineEntries(Head(lines).children, offset, LineNumber(Head(lines)), 1)
         \o LinesEntries(Tail(lines),
                         offset + SpanLength(Head(lines).children) + 1)

InitializeEntryPoints(surface) ==
    LinesEntries(surface.lines, InitialOffset(surface))

\* new PandocCodeDecorator(node)
Construct(surface) == InitializeEntryPoints(NormalizeCodeRange(surface))

\* ------------------------------------------------------------------ lookup

\* The value of locateEntry: undefined, or {entry, index} where entry itself
\* is undefined when the scan stops at array index 0 (index -1); throws when
\* the array is empty (candidate.offset of undefined).
NotFound ==
    [defined |-> FALSE, hasEntry |-> FALSE, index |-> -1, throws |-> FALSE]
Found(hasEntry, index) ==
    [defined |-> TRUE, hasEntry |-> hasEntry, index |-> index, throws |-> FALSE]
Thrown ==
    [defined |-> FALSE, hasEntry |-> FALSE, index |-> -1, throws |-> TRUE]

LocateEntry(E, offset) ==
    IF offset = Infinity THEN NotFound
    ELSE LET greater == {i \in 1..Len(E) : E[i].offset > offset} IN
         IF greater # {}
         THEN \* array index i = SetMin(greater) - 1; returns index i - 1
              Found(SetMin(greater) > 1, SetMin(greater) - 2)
         ELSE IF Len(E) = 0 THEN Thrown
         ELSE IF offset < E[Len(E)].offset + Len(E[Len(E)].node.textContent)
              THEN Found(TRUE, Len(E) - 1)
              ELSE NotFound

\* offsetToLineColumn without the clamp to the last segment's length.
OffsetToLineColumnUnclamped(E, offset) ==
    LET entry == LocateEntry(E, offset) IN
    IF entry.throws THEN [threw |-> TRUE, line |-> 0, column |-> 0]
    ELSE IF ~entry.defined
    THEN [threw |-> FALSE, line |-> E[Len(E)].line,
          column |-> E[Len(E)].column + Minus(offset, E[Len(E)].offset)]
    ELSE IF ~entry.hasEntry THEN [threw |-> TRUE, line |-> 0, column |-> 0]
    ELSE [threw |-> FALSE, line |-> E[entry.index + 1].line,
          column |-> E[entry.index + 1].column + offset
                     - E[entry.index + 1].offset]

\* The value of offsetToLineColumn, or a TypeError (entry.entry undefined).
OffsetToLineColumn(E, offset) ==
    LET entry == LocateEntry(E, offset) IN
    IF entry.throws THEN [threw |-> TRUE, line |-> 0, column |-> 0]
    ELSE IF ~entry.defined
    THEN LET last == E[Len(E)] IN
         [threw |-> FALSE, line |-> last.line,
          column |-> last.column
                     + Min(Len(last.node.textContent),
                           Minus(offset, last.offset))]
    ELSE IF ~entry.hasEntry THEN [threw |-> TRUE, line |-> 0, column |-> 0]
    ELSE [threw |-> FALSE, line |-> E[entry.index + 1].line,
          column |-> E[entry.index + 1].column + offset
                     - E[entry.index + 1].offset]

\* --------------------------------------------------------------- splitting

\* The array left as pushed: the sort forgotten.
SortByOffsetOmitted(E) == E

\* Array.prototype.sort((a, b) => a.offset - b.offset), a stable sort:
\* the place (from 1) it gives the element at place i.
SortedPlace(E, i) ==
    Cardinality({j \in 1..Len(E) :
        \/ E[j].offset < E[i].offset
        \/ (E[j].offset = E[i].offset /\ j <= i)})
SortByOffset(E) ==
    [p \in 1..Len(E) |-> E[CHOOSE i \in 1..Len(E) : SortedPlace(E, i) = p]]

\* splitEntry storing the new entry over the original one instead of pushing.
SplitEntryReplaces(E, index, offset) ==
    LET entry == E[index + 1] IN
    SortByOffset([E EXCEPT ![index + 1] =
        [column |-> entry.column + offset - entry.offset,
         line |-> entry.line,
         node |-> [textContent |->
                       SliceFrom(entry.node.textContent, offset - entry.offset),
                   classList |-> entry.node.classList],
         offset |-> offset]])

\* splitEntry giving the new entry the column of the original.
SplitEntryKeepsColumn(E, index, offset) ==
    LET entry == E[index + 1]
        beforeText == Slice(entry.node.textContent, 0, offset - entry.offset)
        afterText == SliceFrom(entry.node.textContent, offset - entry.offset)
        newSpan == [textContent |-> afterText,
                    classList |-> entry.node.classList]
        truncated == [E EXCEPT ![index + 1].node.textContent = beforeText]
    IN SortByOffset(Append(truncated,
           [column |-> entry.column,
            line |-> entry.line,
            node |-> newSpan,
            offset |-> offset]))

\* splitEntry without the truncation of the original node's text.
SplitEntryKeepsText(E, index, offset) ==
    LET entry == E[index + 1] IN
    SortByOffset(Append(E,
        [column |-> entry.column + offset - entry.offset,
         line |-> entry.line,
         node |-> [textContent |->
                       SliceFrom(entry.node.textContent, offset - entry.offset),
                   classList |-> entry.node.classList],
         offset |-> offset]))

\* splitEntry(entry, offset), entry being the element at array index `index`.
SplitEntry(E, index, offset) ==
    LET entry == E[index + 1]
        beforeText == Slice(entry.node.textContent, 0, offset - entry.offset)
        afterText == SliceFrom(entry.node.textContent, offset - entry.offset)
        newSpan == [textContent |-> afterText,
                    classList |-> entry.node.classList]
        truncated == [E EXCEPT ![index + 1].node.textContent = beforeText]
    IN SortByOffset(Append(truncated,
           [column |-> entry.column + offset - entry.offset,
            line |-> entry.line,
            node |-> newSpan,
            offset |-> offset]))

\* One boundary split wherever an entry is found, without the test that an
\* entry already begins there.
SplitBoundaryAlways(E, offset) ==
    LET loc == LocateEntry(E, offset) IN
    IF loc.throws THEN [entries |-> E, threw |-> TRUE]
    ELSE IF ~loc.defined THEN [entries |-> E, threw |-> FALSE]
    ELSE IF ~loc.hasEntry THEN [entries |-> E, threw |-> TRUE]
    ELSE [entries |-> SplitEntry(E, loc.index, offset), threw |-> FALSE]

\* One boundary of ensureExactSpan: locate, then split unless an entry
\* begins exactly there.  Reading .offset of an undefined entry throws.
SplitBoundary(E, offset) ==
    LET loc == LocateEntry(E, offset) IN
    IF loc.throws THEN [entries |-> E, threw |-> TRUE]
    ELSE IF ~loc.defined THEN [entries |-> E, threw |-> FALSE]
    ELSE IF ~loc.hasEntry THEN [entries |-> E, threw |-> TRUE]
    ELSE IF E[loc.index + 1].offset # offset
    THEN [entries |-> SplitEntry(E, loc.index, offset), threw |-> FALSE]
    ELSE [entries |-> E, threw |-> FALSE]

\* ensureExactSpan splitting at start only.
EnsureExactSpanStartOnly(E, start, end) == SplitBoundary(E, start)

EnsureExactSpan(E, start, end) ==
    LET first == SplitBoundary(E, start) IN
    IF first.threw THEN first ELSE SplitBoundary(first.entries, end)

\* ------------------------------------------------------------- decoration

\* The end index taken inclusive: the segment beginning at end is selected.
EndIndexInclusive(endEntry, length) ==
    IF endEntry.defined /\ endEntry.index # 0
    THEN endEntry.index + 1 ELSE length

\* The not-found end resolved to the last index instead of the length.
EndIndexDropsLast(endEntry, length) ==
    IF endEntry.defined /\ endEntry.index # 0
    THEN endEntry.index ELSE length - 1

\* (endEntry && endEntry.index) || this._elementEntryPoints.length
EndIndex(endEntry, length) ==
    IF endEntry.defined /\ endEntry.index # 0 THEN endEntry.index ELSE length

\* spanSelection: the store after ensureExactSpan and the array indices the
\* generator yields.
SpanSelection(E, start, end) ==
    LET split == EnsureExactSpan(E, start, end)
        S == split.entries
        startEntry == LocateEntry(S, start)
        endEntry == LocateEntry(S, end)
    IN IF split.threw \/ startEntry.throws \/ endEntry.throws
       THEN [entries |-> S, threw |-> TRUE, indices |-> {}]
       ELSE IF ~startEntry.defined
       THEN [entries |-> S, threw |-> FALSE, indices |-> {}]
       ELSE [entries |-> S, threw |-> FALSE,
             indices |-> startEntry.index .. (EndIndex(endEntry, Len(S)) - 1)]

\* decorateSpan with classList.toggle in place of classList.add.
DecorateSpanToggles(E, start, end, classes) ==
    LET sel == SpanSelection(E, start, end) IN
    [entries |->
        [i \in 1..Len(sel.entries) |->
            IF (i - 1) \in sel.indices
            THEN [sel.entries[i] EXCEPT !.node.classList =
                     (@ \ classes) \cup (classes \ @)]
            ELSE sel.entries[i]],
     threw |-> sel.threw]

DecorateSpan(E, start, end, classes) ==
    LET sel == SpanSelection(E, start, end) IN
    [entries |->
        [i \in 1..Len(sel.entries) |->
            IF (i - 1) \in sel.indices
            THEN [sel.entries[i] EXCEPT !.node.classList = @ \cup classes]
            ELSE sel.entries[i]],
     threw |-> sel.threw]

\* clearSpan starting one entry late: the segment at start keeps its classes.
ClearSpanAfterStart(E, start, end, classes) ==
    LET split == EnsureExactSpan(E, start, end)
        S == split.entries
        startEntry == LocateEntry(S, start)
        endEntry == LocateEntry(S, end)
        indices == IF split.threw \/ ~startEntry.defined THEN {}
                   ELSE (startEntry.index + 1)
                        .. (EndIndex(endEntry, Len(S)) - 1)
    IN [entries |->
           [i \in 1..Len(S) |->
               IF (i - 1) \in indices
               THEN [S[i] EXCEPT !.node.classList = @ \ classes]
               ELSE S[i]],
        threw |-> split.threw]

\* The class body defines clearSpan twice; the second definition (the one in
\* force) repeats the selection inline.
ClearSpan(E, start, end, classes) ==
    LET split == EnsureExactSpan(E, start, end)
        S == split.entries
        startEntry == LocateEntry(S, start)
        endEntry == LocateEntry(S, end)
        indices == IF split.threw \/ ~startEntry.defined THEN {}
                   ELSE startEntry.index .. (EndIndex(endEntry, Len(S)) - 1)
    IN [entries |->
           [i \in 1..Len(S) |->
               IF (i - 1) \in indices
               THEN [S[i] EXCEPT !.node.classList = @ \ classes]
               ELSE S[i]],
        threw |-> split.threw]

\* ------------------------------------------------------------------ state

VARIABLES
    built,      \* the rendering surface the index was constructed from, as
                \* handed to the constructor (the splits of its runs are
                \* tracked in entries)
    entries     \* this._elementEntryPoints (each entry with its node)

vars == << built, entries >>

\* The offsets a caller passes: from below the first segment to past the end
\* of the last segment's text, and Infinity.
FirstOffset(E) == E[1].offset
DocEnd(E) == E[Len(E)].offset + Len(E[Len(E)].node.textContent)
OffsetArgs(E) == ((FirstOffset(E) - Below) .. (DocEnd(E) + Beyond)) \cup {Infinity}

Init ==
    /\ built \in Layouts
    /\ entries = Construct(built)

EnsureExactSpanCall ==
    \E start \in OffsetArgs(entries), end \in OffsetArgs(entries) :
        LET r == EnsureExactSpan(entries, start, end) IN
        /\ entries' = r.entries
        /\ UNCHANGED built

DecorateSpanCall ==
    \E start \in OffsetArgs(entries), end \in OffsetArgs(entries),
       classes \in ClassArgs :
        LET r == DecorateSpan(entries, start, end, classes) IN
        /\ entries' = r.entries
        /\ UNCHANGED built

ClearSpanCall ==
    \E start \in OffsetArgs(entries), end \in OffsetArgs(entries),
       classes \in ClassArgs :
        LET r == ClearSpan(entries, start, end, classes) IN
        /\ entries' = r.entries
        /\ UNCHANGED built

\* offsetToLineColumn reads the store and changes nothing; a call that throws
\* returns no value.
OffsetToLineColumnCall ==
    \E offset \in OffsetArgs(entries) :
        /\ ~OffsetToLineColumn(entries, offset).threw
        /\ UNCHANGED << built, entries >>

Next ==
    \/ EnsureExactSpanCall
    \/ DecorateSpanCall
    \/ ClearSpanCall
    \/ OffsetToLineColumnCall

Spec == Init /\ [][Next]_vars

\* The same calls on an index built from a surface with a malformed line id.
InitMalformedId ==
    /\ built = MalformedIdLayout
    /\ entries = Construct(built)

SpecMalformedId == InitMalformedId /\ [][Next]_vars

\* ------------------------------------------------- notions used by claims

\* The class set of one entry, and of all entries in store order.
ClassList(E, i) == E[i].node.classList
ClassLists(E) == [i \in 1..Len(E) |-> ClassList(E, i)]
\* The segment texts in store order.
Texts(E) == [i \in 1..Len(E) |-> E[i].node.textContent]
\* The set of segment start offsets.
OffsetSet(E) == {E[i].offset : i \in 1..Len(E)}

\* The class set carried by the text at position o of store E (o at or after
\* the first segment's offset): that of the last segment starting at or
\* before o.
PriorClasses(E, o) ==
    LET at == {i \in 1..Len(E) : E[i].offset <= o}
        i == CHOOSE k \in at : \A j \in at : E[j].offset <= E[k].offset
    IN ClassList(E, i)

InRange(o, start, end) == start <= o /\ o < end

\* -------------------------------------------------------------------- C1

\* C1: for start < end, both at or after the first segment's offset,
\* decorateSpan(start, end, classes) returns normally and every segment of the
\* resulting store carries the classes its text carried before, plus `classes`
\* exactly when its offset lies in [start, end).  In the two-line example
\* decorate(1, 4, {hl}) tags b and c only.
C1_DecorateTagsExactlyRange ==
    /\ \A start \in OffsetArgs(entries), end \in OffsetArgs(entries),
          classes \in ClassArgs :
          (start < end /\ start >= FirstOffset(entries)
                       /\ end >= FirstOffset(entries)) =>
          LET r == DecorateSpan(entries, start, end, classes) IN
          /\ ~r.threw
          /\ \A i \in 1..Len(r.entries) :
                ClassList(r.entries, i) =
                    IF InRange(r.entries[i].offset, start, end)
                    THEN PriorClasses(entries, r.entries[i].offset) \cup classes
                    ELSE PriorClasses(entries, r.entries[i].offset)
    /\ entries = Construct(ExampleLayout) =>
          ClassLists(DecorateSpan(entries, 1, 4, {"hl"}).entries)
              = << {}, {"hl"}, {"hl"}, {} >>

\* The example store after decorate(1, 4, {hl}): b and c tagged, a and d not.
C1_Witness ==
    /\ built = ExampleLayout
    /\ Texts(entries) = << <<"a">>, <<"b">>, <<"c">>, <<"d">> >>
    /\ ClassLists(entries) = << {}, {"hl"}, {"hl"}, {} >>

\* -------------------------------------------------------------------- C2

\* C2: with start >= end, decorateSpan and clearSpan mutate nothing: no class
\* set changes, no segment is split, no segment is inserted.
C2_EmptyRangeMutatesNothing ==
    \A start \in OffsetArgs(entries), end \in OffsetArgs(entries),
       classes \in ClassArgs :
        start >= end =>
            /\ DecorateSpan(entries, start, end, classes).entries = entries
            /\ ClearSpan(entries, start, end, classes).entries = entries

\* -------------------------------------------------------------------- C3

\* C3 as stated: decorateSpan(s, e, T) then clearSpan(s, e, T) leaves every
\* segment whose offset lies in [s, e) with the class set its text had before
\* the decorate call, whatever classes it carried.
C3_InverseLaw ==
    \A start \in OffsetArgs(entries), end \in OffsetArgs(entries),
       classes \in ClassArgs :
        LET d == DecorateSpan(entries, start, end, classes)
            c == ClearSpan(d.entries, start, end, classes)
        IN \A i \in 1..Len(c.entries) :
              InRange(c.entries[i].offset, start, end) =>
                  ClassList(c.entries, i)
                      = PriorClasses(entries, c.entries[i].offset)

\* C3 as amended: decorateSpan(s, e, T) then clearSpan(s, e, T) leaves every
\* segment whose offset lies in [s, e), and whose text carried no class of T
\* before the decorate call, with exactly its prior class set.
C3_InverseLawDisjoint ==
    \A start \in OffsetArgs(entries), end \in OffsetArgs(entries),
       classes \in ClassArgs :
        LET d == DecorateSpan(entries, start, end, classes)
            c == ClearSpan(d.entries, start, end, classes)
        IN \A i \in 1..Len(c.entries) :
              (/\ InRange(c.entries[i].offset, start, end)
               /\ PriorClasses(entries, c.entries[i].offset) \cap classes = {})
              => ClassList(c.entries, i)
                     = PriorClasses(entries, c.entries[i].offset)

\* A store already split and tagged by earlier calls on which a decorate of a
\* new class over a range strictly inside a segment tags a segment, the clear
\* untags it, and the boundaries of the split remain.
C3_Witness ==
    /\ Len(entries) > Len(Construct(built))
    /\ \E i \in 1..Len(entries) : ClassList(entries, i) # {}
    /\ \E start \in OffsetArgs(entries), end \in OffsetArgs(entries) :
          LET d == DecorateSpan(entries, start, end, {"hl"})
              c == ClearSpan(d.entries, start, end, {"hl"})
          IN /\ start < end
             /\ ~d.threw /\ ~c.threw
             /\ Len(d.entries) > Len(entries)
             /\ ClassLists(d.entries) # ClassLists(c.entries)
             /\ OffsetSet(c.entries) = OffsetSet(d.entries)
             /\ \A i \in 1..Len(c.entries) :
                   ClassList(c.entries, i)
                       = PriorClasses(entries, c.entries[i].offset)

\* -------------------------------------------------------------------- C4

\* What C4 requires of the store r that decorateSpan / clearSpan (clear =
\* TRUE) leaves when called on E with a start inside the document and an end
\* at or past the end of the last segment's text: the only new boundary is
\* start, the text of the last segment still ends where it ended, and exactly
\* the segments from start through the final one gained (lost) the classes.
ThroughLastSegment(E, r, start, classes, clear) ==
    /\ ~r.threw
    /\ OffsetSet(r.entries) = OffsetSet(E) \cup {start}
    /\ Len(r.entries) = Cardinality(OffsetSet(E) \cup {start})
    /\ DocEnd(r.entries) = DocEnd(E)
    /\ \A i \in 1..Len(r.entries) :
          ClassList(r.entries, i) =
              IF r.entries[i].offset < start
              THEN PriorClasses(E, r.entries[i].offset)
              ELSE IF clear
              THEN PriorClasses(E, r.entries[i].offset) \ classes
              ELSE PriorClasses(E, r.entries[i].offset) \cup classes

\* C4: for a start within the document and an end at or past the end of the
\* last segment's text (Infinity included), decorateSpan and clearSpan return
\* normally and affect exactly the segments from the one beginning at start
\* through the final segment; the end causes no split.
C4_EndPastDocument ==
    \A start \in OffsetArgs(entries), end \in OffsetArgs(entries),
       classes \in ClassArgs :
        (/\ FirstOffset(entries) <= start /\ start < DocEnd(entries)
         /\ end >= DocEnd(entries)) =>
            /\ ThroughLastSegment(entries,
                   DecorateSpan(entries, start, end, classes),
                   start, classes, FALSE)
            /\ ThroughLastSegment(entries,
                   ClearSpan(entries, start, end, classes),
                   start, classes, TRUE)

\* The excerpt "abc" after decorate(0, Infinity, {hl}): the run is split at 0
\* and the segments from there through the last one are tagged.
C4_Witness ==
    /\ built = BiasLayout
    /\ Texts(entries) = << <<"a">>, <<"b", "c">> >>
    /\ ClassLists(entries) = << {}, {"hl"} >>
    /\ DecorateSpan(entries, 0, Infinity, {"hl"}).entries = entries

\* -------------------------------------------------------------------- C5

\* C5: on a non-empty store, decorateSpan / clearSpan with a start or end
\* below the first segment's offset or past the document end return without
\* raising an error, and when start has no containing segment the call
\* changes no class set and no boundary.
C5_OutOfRangeNeverThrows ==
    \A start \in OffsetArgs(entries), end \in OffsetArgs(entries),
       classes \in ClassArgs :
        (\/ start < FirstOffset(entries) \/ start >= DocEnd(entries)
         \/ end < FirstOffset(entries) \/ end >= DocEnd(entries)) =>
            LET d == DecorateSpan(entries, start, end, classes)
                c == ClearSpan(entries, start, end, classes)
            IN /\ ~d.threw /\ ~c.threw
               /\ (start < FirstOffset(entries) \/ start >= DocEnd(entries))
                      => (d.entries = entries /\ c.entries = entries)

\* -------------------------------------------------------------------- C6

\* The text of a line of the rendering surface: its runs' texts in order.
RECURSIVE LineText(_)
LineText(children) ==
    IF children = <<>> THEN <<>>
    ELSE (IF Head(children).nodeName = "A" THEN <<>>
          ELSE Head(children).textContent) \o LineText(Tail(children))

\* The offset (bias 0) of the first character of line k of the surface.
RECURSIVE LineStart(_, _)
LineStart(surface, k) ==
    IF k = 1 THEN 0
    ELSE LineStart(surface, k - 1)
         + Len(LineText(surface.lines[k - 1].children)) + 1

\* The document's length: every line's text and a line break between lines.
DocumentLength(surface) ==
    LineStart(surface, Len(surface.lines))
    + Len(LineText(surface.lines[Len(surface.lines)].children))

\* The line (index into surface.lines) holding the character at offset o: its
\* text, or the line break that ends it.
LayoutLineOf(surface, o) ==
    CHOOSE k \in 1..Len(surface.lines) :
        /\ LineStart(surface, k) <= o
        /\ o <= LineStart(surface, k) + Len(LineText(surface.lines[k].children))

\* C6: with bias 0, for every offset o in [0, documentLength),
\* offsetToLineColumn(o) returns the number of the line that holds the
\* character at o and 1 plus the number of characters before it on that line,
\* as the layout the index was built from gives them.
C6_MatchesLayout ==
    InitialOffset(built) = 0 =>
        \A o \in 0..(DocumentLength(built) - 1) :
            LET r == OffsetToLineColumn(entries, o)
                k == LayoutLineOf(built, o)
            IN /\ ~r.threw
               /\ r.line = built.lines[k].id
               /\ r.column = 1 + (o - LineStart(built, k))

\* -------------------------------------------------------------------- C7

\* C7: for every offset at or past the end of the last segment's text,
\* offsetToLineColumn returns the last segment's line and the column one past
\* the last character of that segment, however large the offset; in the
\* example a@0 b@1 c@3 d@4, offsetToLineColumn(10) is line 2, column 3.
C7_ClampPastEnd ==
    /\ \A o \in OffsetArgs(entries) \cup {DocEnd(entries) + 5} :
          o >= DocEnd(entries) =>
              LET r == OffsetToLineColumn(entries, o)
                  lastEntry == entries[Len(entries)]
              IN /\ ~r.threw
                 /\ r.line = lastEntry.line
                 /\ r.column = lastEntry.column
                               + Len(lastEntry.node.textContent)
                 /\ r.column = lastEntry.column
                               + Min(Len(lastEntry.node.textContent),
                                     Minus(o, lastEntry.offset))
    /\ built = ExampleLayout =>
          LET r == OffsetToLineColumn(entries, 10)
          IN ~r.threw /\ r.line = 2 /\ r.column = 3

\* The excerpt "abc" with its last segment split ("ab" | "c"): an offset past
\* the end maps to line 4, column 4, one past "c".
C7_Witness ==
    /\ built = BiasLayout
    /\ Texts(entries) = << <<"a", "b">>, <<"c">> >>
    /\ LET r == OffsetToLineColumn(entries, DocEnd(entries) + 1)
       IN ~r.threw /\ r.line = 4 /\ r.column = 4

\* -------------------------------------------------------------------- C8

\* C8: after construction and after every call, the offsets of
\* _elementEntryPoints are strictly increasing in array order.
C8_OffsetsStrictlyIncreasing ==
    \A i \in 1..(Len(entries) - 1) : entries[i].offset < entries[i + 1].offset

\* The example store with the segment split off at the line break (offset 2)
\* sorted into the middle of the array.
C8_Witness ==
    /\ built = ExampleLayout
    /\ Len(entries) = 5
    /\ entries[3].offset = 2
    /\ entries[3].node.textContent = <<>>

\* -------------------------------------------------------------------- C9

\* Texts joined with one line break between consecutive elements.
RECURSIVE JoinLines(_)
JoinLines(texts) ==
    IF texts = <<>> THEN <<>>
    ELSE IF Len(texts) = 1 THEN texts[1]
    ELSE texts[1] \o << "\n" >> \o JoinLines(Tail(texts))

\* The document text the index was built from.
DocumentText(surface) ==
    JoinLines([k \in 1..Len(surface.lines) |->
                  LineText(surface.lines[k].children)])

\* The texts, in store order, of the segments recorded with line n.
RECURSIVE StoreLineText(_, _)
StoreLineText(E, n) ==
    IF E = <<>> THEN <<>>
    ELSE (IF Head(E).line = n THEN Head(E).node.textContent ELSE <<>>)
         \o StoreLineText(Tail(E), n)

\* The segment texts in store order, with a line break between lines.
StoreText(E, surface) ==
    JoinLines([k \in 1..Len(surface.lines) |->
                  StoreLineText(E, surface.lines[k].id)])

RECURSIVE TotalLength(_)
TotalLength(texts) ==
    IF texts = <<>> THEN 0 ELSE Len(Head(texts)) + TotalLength(Tail(texts))

\* C9: after any sequence of calls the segment texts in store order, with a
\* line break between lines, are the document text the index was built from:
\* the lines follow each other in store order, every character sits at the
\* offset it had in the document, and the total length is unchanged.
C9_TextPreserved ==
    /\ StoreText(entries, built) = DocumentText(built)
    /\ \A i \in 1..(Len(entries) - 1) : entries[i].line <= entries[i + 1].line
    /\ \A i \in 1..Len(entries) :
          \A k \in 1..Len(entries[i].node.textContent) :
              entries[i].node.textContent[k] =
                  DocumentText(built)[entries[i].offset + k
                                      - InitialOffset(built)]
    /\ TotalLength(Texts(entries)) = TotalLength(Texts(Construct(built)))

\* The excerpt "abc" split by two calls into "a", "b", "c".
C9_Witness ==
    /\ built = BiasLayout
    /\ Texts(entries) = << <<"a">>, <<"b">>, <<"c">> >>
    /\ OffsetSet(entries) = {-1, 0, 1}

\* ------------------------------------------------------------------- C10

\* C10: after construction and after every call, every two consecutive
\* segments recorded with the same line satisfy
\* column2 = column1 + length(text1).
C10_ColumnsContiguous ==
    \A i \in 1..(Len(entries) - 1) :
        entries[i].line = entries[i + 1].line =>
            entries[i + 1].column
                = entries[i].column + Len(entries[i].node.textContent)

\* ------------------------------------------------------------------- C11

\* C11: decorateSpan is idempotent: for every store, range and class set the
\* store after decorateSpan(s, e, T); decorateSpan(s, e, T) has the same
\* segments, boundaries and class sets as after one decorateSpan(s, e, T).
C11_DecorateIdempotent ==
    \A start \in OffsetArgs(entries), end \in OffsetArgs(entries),
       classes \in ClassArgs :
        LET once == DecorateSpan(entries, start, end, classes)
            twice == DecorateSpan(once.entries, start, end, classes)
        IN twice.entries = once.entries

\* The excerpt "abc" after decorateSpan(0, 1, {hl}), which split the run twice
\* and tagged "b": the same call again leaves the store as it is.
C11_Witness ==
    /\ built = BiasLayout
    /\ Texts(entries) = << <<"a">>, <<"b">>, <<"c">> >>
    /\ ClassLists(entries) = << {}, {"hl"}, {} >>
    /\ DecorateSpan(Construct(built), 0, 1, {"hl"}).entries = entries
    /\ DecorateSpan(entries, 0, 1, {"hl"}).entries = entries

\* ------------------------------------------------------------------- C12

\* C12: locateEntry(offset) returns an entry exactly when that entry's range
\* [entry.offset, entry.offset + length(entry.text)) contains offset; for
\* every other offset (below the first segment, on a line break between
\* lines, at or past the end of the last segment, Infinity) it returns
\* undefined.
C12_LocateOnlyContaining ==
    \A o \in OffsetArgs(entries) :
        LET r == LocateEntry(entries, o)
            holders == {i \in 1..Len(entries) :
                           /\ entries[i].offset <= o
                           /\ o < entries[i].offset
                                  + Len(entries[i].node.textContent)}
        IN /\ ~r.throws
           /\ r.defined <=> holders # {}
           /\ r.defined => (r.hasEntry /\ (r.index + 1) \in holders)

\* ------------------------------------------------------------------- C13

\* C13: a split happens only strictly inside a segment, so from a store whose
\* segments all have non-empty text no sequence of calls creates a segment
\* with empty text or truncates one to empty text.
C13_NoEmptySegment ==
    \A i \in 1..Len(entries) : entries[i].node.textContent # <<>>

\* ------------------------------------------------------------------- C14

\* C14: when, after the split, the end offset is found at store index 0, the
\* selection of decorateSpan / clearSpan contains no segment: no class set
\* changes, and the call never decorates through the end of the document.
C14_EndAtIndexZeroSelectsNothing ==
    \A start \in OffsetArgs(entries), end \in OffsetArgs(entries),
       classes \in ClassArgs :
        LET split == EnsureExactSpan(entries, start, end)
            endEntry == LocateEntry(split.entries, end)
        IN (~split.threw /\ endEntry.defined /\ endEntry.index = 0) =>
              /\ DecorateSpan(entries, start, end, classes).entries
                     = split.entries
              /\ ClearSpan(entries, start, end, classes).entries
                     = split.entries

\* ------------------------------------------------------------------- C15

\* An offset within the document: at or after the first segment's offset,
\* before the end of the last segment's text, and not Infinity.
WithinDocument(E, o) ==
    o # Infinity /\ FirstOffset(E) <= o /\ o < DocEnd(E)

\* C15: after ensureExactSpan(start, end) returns, each of start and end that
\* lies within the document is the offset of a segment, and no boundary is
\* added anywhere else: an offset beyond the document or Infinity causes no
\* split.
C15_BoundariesExist ==
    \A start \in OffsetArgs(entries), end \in OffsetArgs(entries) :
        LET r == EnsureExactSpan(entries, start, end)
            inside == {b \in {start, end} : WithinDocument(entries, b)}
        IN ~r.threw =>
              /\ inside \subseteq OffsetSet(r.entries)
              /\ OffsetSet(r.entries) = OffsetSet(entries) \cup inside
              /\ Len(r.entries) = Cardinality(OffsetSet(r.entries))

\* The excerpt "abc"@-1 after ensureExactSpan(0, 1): segments begin at 0 and
\* at 1.
C15_Witness ==
    /\ built = BiasLayout
    /\ EnsureExactSpan(Construct(built), 0, 1).entries = entries
    /\ ~EnsureExactSpan(Construct(built), 0, 1).threw
    /\ OffsetSet(entries) = {-1, 0, 1}

\* ------------------------------------------------------------------- C16

\* C16: ensureExactSpan is idempotent: a second ensureExactSpan(start, end)
\* right after the first leaves the store identical to its state after the
\* first call.
C16_EnsureIdempotent ==
    \A start \in OffsetArgs(entries), end \in OffsetArgs(entries) :
        LET once == EnsureExactSpan(entries, start, end)
            twice == EnsureExactSpan(once.entries, start, end)
        IN twice.entries = once.entries /\ twice.threw = once.threw

\* "a" | "bc" after ensureExactSpan(3, Infinity) split "bc" at 3: the same
\* call again changes nothing.
C16_Witness ==
    /\ built = LeadingEmptyLayout
    /\ EnsureExactSpan(Construct(built), 3, Infinity).entries = entries
    /\ Texts(entries) = << <<"a">>, <<"b">>, <<"c">> >>
    /\ EnsureExactSpan(entries, 3, Infinity).entries = entries

\* ------------------------------------------------------------------- C17

\* A store with its class sets left out: offsets, lines, columns and texts.
Boundaries(E) ==
    [i \in 1..Len(E) |->
        [offset |-> E[i].offset, line |-> E[i].line, column |-> E[i].column,
         textContent |-> E[i].node.textContent]]

\* C17: over any sequence of calls the set of segment start offsets only
\* grows and the number of segments never decreases; clearSpan leaves the
\* segments that ensureExactSpan with the same range leaves, and only
\* removes classes.
C17_SplitsPermanent ==
    /\ [][/\ OffsetSet(entries) \subseteq OffsetSet(entries')
          /\ Len(entries) <= Len(entries')]_vars
    /\ [](\A start \in OffsetArgs(entries), end \in OffsetArgs(entries),
             classes \in ClassArgs :
             LET c == ClearSpan(entries, start, end, classes).entries
                 s == EnsureExactSpan(entries, start, end).entries
             IN /\ Boundaries(c) = Boundaries(s)
                /\ \A i \in 1..Len(c) : ClassList(c, i) \subseteq ClassList(s, i))

\* "a"{kw} split at the line break of the empty line (the new segment copies
\* kw), then cleared: the boundary at 2 is still there.
C17_Witness ==
    /\ built = GapLayout
    /\ OffsetSet(entries) = {0, 2, 3}
    /\ ClassLists(entries) = << {}, {"kw"}, {} >>

\* ------------------------------------------------------------------- C18

\* C18: a line whose identifier cannot be resolved to a number makes the
\* construction fail and produces no store: no segment is ever recorded with
\* a non-numeric (NaN) line value.
C18_NoSegmentWithNaNLine ==
    \A i \in 1..Len(entries) : entries[i].line # NaN

\* ------------------------------------------------------------------- C19

\* C19: for every offset at or after the first segment's offset (inside a
\* segment, on a line break or past the end) offsetToLineColumn answers on
\* the current store, however it was split and decorated, what it answered on
\* the store as constructed.
C19_PositionIndependentOfSplits ==
    \A o \in OffsetArgs(entries) :
        o >= FirstOffset(entries) =>
            /\ ~OffsetToLineColumn(entries, o).threw
            /\ OffsetToLineColumn(entries, o) =
                   OffsetToLineColumn(Construct(built), o)

\* "abc" split inside its last (only) run and on the line break after it,
\* then decorated: the last segment has been split.
C19_Witness ==
    /\ built = BiasLayout
    /\ Len(entries) > Len(Construct(built))
    /\ entries[Len(entries)].offset > Construct(built)[1].offset
    /\ \E i \in 1..Len(entries) : entries[i].node.classList # {}
    /\ \A o \in OffsetArgs(entries) :
           o >= FirstOffset(entries) =>
               OffsetToLineColumn(entries, o) =
                   OffsetToLineColumn(Construct(built), o)

\* ------------------------------------------------------------------- C20

\* The character offsets of store E: those lying inside a segment's text.
CharOffsets(E) ==
    UNION {E[i].offset .. (E[i].offset + Len(E[i].node.textContent) - 1) :
               i \in 1..Len(E)}

\* The class set of the segment of E whose text contains character offset x.
ClassesAt(E, x) ==
    LET i == CHOOSE k \in 1..Len(E) :
                 /\ E[k].offset <= x
                 /\ x < E[k].offset + Len(E[k].node.textContent)
    IN ClassList(E, i)

\* C20: for every character offset x of the document, the class set of the
\* segment containing x is unchanged by ensureExactSpan(start, end) for any
\* arguments, and after decorateSpan(start, end, T) with start < end it is the
\* previous class set of x united with T when start <= x < end and the
\* previous class set otherwise.
C20_ClassesPerCharacter ==
    \A start, end \in OffsetArgs(entries), T \in ClassArgs :
        LET ensured == EnsureExactSpan(entries, start, end).entries
            decorated == DecorateSpan(entries, start, end, T).entries
        IN \A x \in CharOffsets(entries) :
               /\ x \in CharOffsets(ensured)
               /\ ClassesAt(ensured, x) = ClassesAt(entries, x)
               /\ start < end =>
                      /\ x \in CharOffsets(decorated)
                      /\ ClassesAt(decorated, x) =
                             IF InRange(x, start, end)
                             THEN ClassesAt(entries, x) \cup T
                             ELSE ClassesAt(entries, x)

\* The same statement for ranges that start at or after the first offset;
\* it locates what C20 loses to the TypeError of C5.
C20_FromFirstOffset ==
    \A start, end \in OffsetArgs(entries), T \in ClassArgs :
        LET ensured == EnsureExactSpan(entries, start, end)
            decorated == DecorateSpan(entries, start, end, T)
        IN \A x \in CharOffsets(entries) :
               /\ ~ensured.threw => ClassesAt(ensured.entries, x) = ClassesAt(entries, x)
               /\ (start < end /\ start >= FirstOffset(entries)) =>
                      /\ ~decorated.threw
                      /\ ClassesAt(decorated.entries, x) =
                             IF InRange(x, start, end)
                             THEN ClassesAt(entries, x) \cup T
                             ELSE ClassesAt(entries, x)

====
